---- MODULE Spec2Model ----
(***************************************************************************)
(* Model of the Indeed scraping pipeline: main() of main.py driving        *)
(* configure_webdriver, search_jobs, scrape_job_data and                   *)
(* navigate_to_next_page of scraper.py against a browser session.          *)
(*                                                                         *)
(* Strings the code computes with are sequences of one-character strings.  *)
(* The DataFrame df is kept as the sequence of per-page batches the        *)
(* extraction loop appended: a batch [page |-> p, n |-> k] stands for the  *)
(* k rows extracted from the listings 1..k of result page p, in order.     *)
(***************************************************************************)
EXTENDS Integers, Sequences, FiniteSets, TLC

(* ------------------------------ bounds --------------------------------- *)

\* number of result pages the site can serve (the last one has no next control)
MaxPages == 4

\* number of times a slow page load leaves the old document in place
MaxStale == 2

\* largest value of the recency filter days_since
MaxDays == 1

\* most <a> elements, and most divs carrying the class metadata, in a listing
MaxElems == 2

\* most pieces a raw location is put together from
MaxPieces == 3

\* most rows of the frame the classifier is given
MaxRows == 11

\* most runs of main that follow each other
MaxRuns == 3

\* most rows of the frame a run hands to the sink
MaxBatch == 1

(* ------------------------- program constants --------------------------- *)

max_retries == 3

max_jobs == 15000

\* KMeans(n_clusters=10, ...) and range(10) of identify_it_jobs
n_clusters == 10

\* the "Unknown" sentinel of search_jobs / scrape_job_data
Unknown == <<"U", "n", "k", "n", "o", "w", "n">>

country == <<"https://www.indeed.com">>

job_position == <<"I", "T">>

job_location == <<"all">>

(* ------------------------- environment inputs -------------------------- *)

\* numbers of listing containers a rendered result page can hold
PageSizes == {1, 2, max_jobs \div 2}

\* texts the job-count indicator element can show
IndicatorTexts ==
    { <<>>,
      <<" ">>,
      <<"+">>,
      <<"0", " ", "j", "o", "b", "s">>,
      <<"3", " ", "j", "o", "b", "s">>,
      <<"7", ",", "5", "0", "1", "+", " ", "j", "o", "b", "s">>,
      <<"1", "6", ",", "0", "0", "0", " ", "j", "o", "b", "s">>,
      <<"P", "a", "g", "e", " ", "1", " ", "o", "f", " ", "3">> }

(* --------------------------- string helpers ---------------------------- *)

Digits == {"0", "1", "2", "3", "4", "5", "6", "7", "8", "9"}

DigitVal(c) ==
    CASE c = "0" -> 0 [] c = "1" -> 1 [] c = "2" -> 2 [] c = "3" -> 3
      [] c = "4" -> 4 [] c = "5" -> 5 [] c = "6" -> 6 [] c = "7" -> 7
      [] c = "8" -> 8 [] c = "9" -> 9

\* str.split(): the maximal runs of non-blank characters, in order
RECURSIVE SplitFrom(_, _, _)
SplitFrom(s, i, cur) ==
    IF i > Len(s)
    THEN IF cur = <<>> THEN <<>> ELSE <<cur>>
    ELSE IF s[i] = " "
         THEN (IF cur = <<>> THEN <<>> ELSE <<cur>>) \o SplitFrom(s, i + 1, <<>>)
         ELSE SplitFrom(s, i + 1, Append(cur, s[i]))

Split(s) == SplitFrom(s, 1, <<>>)

\* str.replace(c, ''): every occurrence of the character c removed
RECURSIVE Remove(_, _)
Remove(s, c) ==
    IF s = <<>> THEN <<>>
    ELSE (IF Head(s) = c THEN <<>> ELSE <<Head(s)>>) \o Remove(Tail(s), c)

\* int(s) succeeds: over the characters used here, a non-empty run of digits
IsInt(s) == s # <<>> /\ \A i \in 1..Len(s) : s[i] \in Digits

\* int(s) for a string int() accepts
RECURSIVE IntOf(_)
IntOf(s) ==
    IF s = <<>> THEN 0
    ELSE 10 * IntOf(SubSeq(s, 1, Len(s) - 1)) + DigitVal(s[Len(s)])

\* "+".join(terms)
RECURSIVE Join(_)
Join(terms) ==
    IF Len(terms) = 0 THEN <<>>
    ELSE IF Len(terms) = 1 THEN terms[1]
    ELSE terms[1] \o <<"+">> \o Join(Tail(terms))

DigitChar(d) == CASE d = 0 -> "0" [] d = 1 -> "1" [] d = 2 -> "2" [] d = 3 -> "3"
                  [] d = 4 -> "4" [] d = 5 -> "5" [] d = 6 -> "6" [] d = 7 -> "7"
                  [] d = 8 -> "8" [] d = 9 -> "9"

\* str(n) of a natural number, as the f-string formats days_since
RECURSIVE StrOf(_)
StrOf(n) == IF n < 10 THEN <<DigitChar(n)>>
            ELSE StrOf(n \div 10) \o <<DigitChar(n % 10)>>

\* the f-string of search_jobs
BuildUrl(base, position, location, days) ==
    base \o <<"/jobs?q=">> \o Join(Split(position)) \o <<"&l=">> \o location
         \o <<"&fromage=">> \o StrOf(days)


(* ---------------------------- text helpers ----------------------------- *)

UpperCase == <<"A", "B", "C", "D", "E", "F", "G", "H", "I", "J", "K", "L", "M", "N", "O", "P", "Q", "R", "S", "T", "U", "V", "W", "X", "Y", "Z">>

LowerCase == <<"a", "b", "c", "d", "e", "f", "g", "h", "i", "j", "k", "l", "m", "n", "o", "p", "q", "r", "s", "t", "u", "v", "w", "x", "y", "z">>

\* str.lower() of one character
LowerChar(c) ==
    IF \E i \in 1..Len(UpperCase) : UpperCase[i] = c
    THEN LowerCase[CHOOSE i \in 1..Len(UpperCase) : UpperCase[i] = c]
    ELSE c

\* str.lower()
LowerStr(s) == [i \in 1..Len(s) |-> LowerChar(s[i])]

\* the characters \s and str.strip() treat as blank
IsBlank(c) == c \in {" ", "\t", "\n"}

\* str.strip()
RECURSIVE Strip(_)
Strip(s) ==
    IF s = <<>> THEN <<>>
    ELSE IF IsBlank(Head(s)) THEN Strip(Tail(s))
    ELSE IF IsBlank(s[Len(s)]) THEN Strip(SubSeq(s, 1, Len(s) - 1))
    ELSE s

\* the substring sub starts at position i of s
MatchesAt(s, sub, i) ==
    /\ i + Len(sub) - 1 <= Len(s)
    /\ SubSeq(s, i, i + Len(sub) - 1) = sub

\* `sub in s`
Contains(s, sub) == \E i \in 1..(Len(s) + 1) : MatchesAt(s, sub, i)

(* --------------------------- listing nodes ----------------------------- *)

\* An element a find() looks for is a sequence: <<>> when find() gives None,
\* <<t>> when the element is there with text t.  A listing node `box` holds
\* its <a> elements and its divs carrying the class metadata in document
\* order, and the elements the other selectors look for.

\* box.find(...): the first of the elements that match, or None
FirstOf(hits) == IF hits = <<>> THEN <<>> ELSE <<hits[1]>>

IsTitleAnchor(a) == a.title

IsSalaryDiv(d) == d.salary

NA == <<"N", "/", "A">>

FullTime == <<"F", "u", "l", "l", "-", "t", "i", "m", "e">>

PartTime == <<"P", "a", "r", "t", "-", "t", "i", "m", "e">>

\* the exception extract_job_data raises on line 150, or "None"
ExtractRaises(box) ==
    LET a == FirstOf(box.anchors) IN
    IF a = <<>> THEN "AttributeError"     \* None.get('href')
    ELSE IF a[1].href = <<>> THEN "TypeError"   \* country + None
    ELSE "None"

\* lines 178-186: a Tag is true whatever its contents
extract_date_posted(box) ==
    LET date_elements == <<box.date, box.myJobsStateDate, box.jobAge>>
        found == SelectSeq(date_elements, LAMBDA e : e # <<>>)
    IN  IF found = <<>> THEN NA ELSE Strip(found[1][1])

\* lines 198-205: the first div whose classes include metadata
extract_job_type(box) ==
    LET job_type_element == FirstOf(box.divs) IN
    IF job_type_element # <<>>
    THEN LET job_type_text == LowerStr(Strip(job_type_element[1].text)) IN
         IF Contains(job_type_text, LowerStr(FullTime)) THEN FullTime
         ELSE IF Contains(job_type_text, LowerStr(PartTime)) THEN PartTime
         ELSE Unknown
    ELSE Unknown

\* `X.text.strip() if X else 'N/A'`
TextOr(e) == IF e # <<>> THEN Strip(e[1]) ELSE NA

\* extract_job_data with the company looked up only when a title was found
extract_job_data_nested(box, base) ==
    LET title == FirstOf(SelectSeq(box.anchors, IsTitleAnchor))
        sal == FirstOf(SelectSeq(box.divs, IsSalaryDiv))
    IN  [k \in {"Link", "Job Title", "Company", "Date Posted", "Location",
                "Salary", "Job Type"} |->
           CASE k = "Link" -> base \o FirstOf(box.anchors)[1].href[1]
             [] k = "Job Title" -> IF title # <<>> THEN Strip(title[1].text) ELSE NA
             [] k = "Company" -> IF title # <<>> THEN TextOr(box.company) ELSE NA
             [] k = "Date Posted" -> extract_date_posted(box)
             [] k = "Location" -> TextOr(box.location)
             [] k = "Salary" -> IF sal # <<>> THEN Strip(sal[1].text) ELSE NA
             [] k = "Job Type" -> extract_job_type(box)]

\* lines 150-166, for a box on which line 150 does not raise
extract_job_data(box, base) ==
    LET title == FirstOf(SelectSeq(box.anchors, IsTitleAnchor))
        sal == FirstOf(SelectSeq(box.divs, IsSalaryDiv))
    IN  [k \in {"Link", "Job Title", "Company", "Date Posted", "Location",
                "Salary", "Job Type"} |->
           CASE k = "Link" -> base \o FirstOf(box.anchors)[1].href[1]
             [] k = "Job Title" -> IF title # <<>> THEN Strip(title[1].text) ELSE NA
             [] k = "Company" -> TextOr(box.company)
             [] k = "Date Posted" -> extract_date_posted(box)
             [] k = "Location" -> TextOr(box.location)
             [] k = "Salary" -> IF sal # <<>> THEN Strip(sal[1].text) ELSE NA
             [] k = "Job Type" -> extract_job_type(box)]

\* sequences over S of length at most n
SeqUpTo(S, n) == UNION {[1..m -> S] : m \in 0..n}

\* an element that is absent, there with blank text, or there with text t
Optional(t) == {<<>>, << <<>> >>, <<t>>}

Anchors ==
    { [title |-> t, href |-> h, text |-> <<" ", "D", "e", "v", " ">>] :
        t \in BOOLEAN, h \in {<<>>, << <<"/", "r", "c", "/", "c", "l", "k", "?", "j", "k", "=", "1">> >>} }

MetadataDivs ==
    { [salary |-> TRUE, text |-> <<" ", "$", "2", "0", " ", "a", "n", " ", "h", "o", "u", "r", " ">>],
      [salary |-> FALSE, text |-> <<"P", "A", "R", "T", "-", "T", "I", "M", "E">>],
      [salary |-> FALSE, text |-> <<"P", "a", "r", "t", "-", "t", "i", "m", "e", ",", " ", "F", "u", "l", "l", "-", "t", "i", "m", "e">>] }

\* the listing nodes the extractor is applied to
ListingNodes ==
    [ anchors : SeqUpTo(Anchors, MaxElems),
      company : Optional(<<" ", "A", "c", "m", "e", " ">>),
      date : Optional(<<"1", " ", "d", "a", "y", " ", "a", "g", "o">>),
      myJobsStateDate : Optional(<<"2", " ", "d", "a", "y", "s", " ", "a", "g", "o">>),
      jobAge : Optional(<<"3", " ", "d", "a", "y", "s", " ", "a", "g", "o">>),
      location : {<<>>, << <<"A", "u", "s", "t", "i", "n", ",", " ", "T", "X">> >>},
      divs : SeqUpTo(MetadataDivs, MaxElems) ]

(* -------------------------- DataFrame helpers -------------------------- *)

\* len(df): the number of rows
RECURSIVE NRows(_)
NRows(d) == IF d = <<>> THEN 0 ELSE d[1].n + NRows(Tail(d))

IsPrefix(a, b) == Len(a) <= Len(b) /\ SubSeq(b, 1, Len(a)) = a

(* ------------------------------- state --------------------------------- *)

VARIABLES
    pc,          \* position of the run in main / scrape_job_data
    driver,      \* main's local `driver`: "None" or "chrome"
    browser,     \* the Chrome process: "none", "running" or "quit"
    outcome,     \* what the last driver call or collaborator call gave
    exc,         \* exception propagating to / caught by main's handler
    days_since,  \* recency filter computed by main
    full_url,    \* url returned by search_jobs
    text,        \* text of the job-count indicator element read by search_jobs
    total_jobs,  \* second component returned by search_jobs
    df,          \* accumulator of scrape_job_data
    job_count,   \* running count of scrape_job_data
    retry,       \* loop variable of the retry loop
    result,      \* main's df: the value scrape_job_data returned
    shown,       \* index of the result page the browser's document shows
    boxes,       \* listing containers in the document (0: none rendered)
    navPending,  \* next was clicked and the new document has not replaced the old
    stale,       \* times the old document was still in place after the pause
    clicks,      \* activations of the next-page control
    timeouts,    \* content waits that timed out since the loop began waiting
    refreshes,   \* driver.refresh() calls of the run
    decomposed,  \* the location split was applied to every row of main's df
    uploaded,    \* upload_to_gcs wrote the blob
    loaded,      \* load_to_bigquery appended the rows
    bucket,      \* the objects of the storage bucket, as name/content pairs
    table,       \* the batches of rows in the warehouse table, oldest first
    run,         \* runs of main started so far, when runs follow each other
    call,        \* the function applied on its own, "none" during a run of main
    arg,         \* its argument
    ret,         \* the value it returned
    status       \* "idle", "ready", "returned" or the exception it raised

vars == <<pc, driver, browser, outcome, exc, days_since, full_url, text,
          total_jobs, df, job_count, retry, result, shown, boxes, navPending,
          stale, clicks, timeouts, refreshes, decomposed, uploaded, loaded,
          bucket, table, run, call, arg, ret, status>>

pipelineVars == <<pc, driver, browser, outcome, exc, days_since, full_url, text,
                  total_jobs, df, job_count, retry, result, shown, boxes,
                  navPending, stale, clicks, timeouts, refreshes, decomposed,
                  uploaded, loaded>>

callVars == <<call, arg, ret, status>>

sinkVars == <<bucket, table, run>>

mainVars == <<driver, browser, days_since, decomposed, uploaded, loaded>>

searchVars == <<full_url, text, total_jobs>>

harvestVars == <<df, job_count, retry, result>>

pageVars == <<shown, boxes, navPending, stale, clicks, timeouts, refreshes>>

\* no function is being applied on its own
NoCall ==
    /\ call = "none"
    /\ arg = <<>>
    /\ ret = <<>>
    /\ status = "idle"

\* main has been entered
MainEntered ==
    /\ pc = "configure"
    /\ driver = "None"
    /\ browser = "none"
    /\ outcome = "none"
    /\ exc = "None"
    /\ days_since \in 0..MaxDays
    /\ full_url = <<>>
    /\ text = <<>>
    /\ total_jobs = <<>>
    /\ df = <<>>
    /\ job_count = 0
    /\ retry = 0
    /\ result = <<>>
    /\ shown = 0
    /\ boxes = 0
    /\ navPending = FALSE
    /\ stale = 0
    /\ clicks = 0
    /\ timeouts = 0
    /\ refreshes = 0
    /\ decomposed = FALSE
    /\ uploaded = FALSE
    /\ loaded = FALSE

\* nothing has been written to the bucket or the table, and the run of main
\* is the only one
SinkEmpty ==
    /\ bucket = {}
    /\ table = <<>>
    /\ run = 0

Init == MainEntered /\ NoCall /\ SinkEmpty

\* an exception leaves the try block of main
Raise(e) == pc' = "except" /\ exc' = e

(* ------------------------- configure_webdriver ------------------------- *)

\* webdriver.Chrome(...) raises: no browser process exists
LaunchFails ==
    /\ pc = "configure"
    /\ outcome' = "launch_failed"
    /\ Raise("WebDriverException")
    /\ UNCHANGED <<mainVars, searchVars, harvestVars, pageVars>>

\* Chrome is running and stealth(driver, ...) raises: configure_webdriver
\* does not return, so main's `driver` keeps its value None
StealthFails ==
    /\ pc = "configure"
    /\ browser' = "running"
    /\ outcome' = "stealth_failed"
    /\ Raise("WebDriverException")
    /\ UNCHANGED <<driver, days_since, decomposed, uploaded, loaded, searchVars,
                   harvestVars, pageVars>>

Configured ==
    /\ pc = "configure"
    /\ browser' = "running"
    /\ driver' = "chrome"
    /\ outcome' = "configured"
    /\ pc' = "search"
    /\ UNCHANGED <<exc, days_since, decomposed, uploaded, loaded, searchVars, harvestVars,
                   pageVars>>

configure_webdriver == LaunchFails \/ StealthFails \/ Configured

(* ------------------------------ search_jobs ---------------------------- *)

\* driver.get(full_url) leaves the session on page 1 of the results
OnFirstPage ==
    /\ shown' = 1
    /\ boxes' = 0
    /\ UNCHANGED <<navPending, stale, clicks, timeouts, refreshes>>

\* SearchTimeout with the TimeoutException of the wait left to propagate
SearchTimeoutRaises ==
    /\ pc = "search"
    /\ OnFirstPage
    /\ outcome' = "search_timeout"
    /\ Raise("TimeoutException")
    /\ UNCHANGED <<searchVars, mainVars, harvestVars>>

\* neither indicator appears within 20 s
SearchTimeout ==
    /\ pc = "search"
    /\ OnFirstPage
    /\ outcome' = "search_timeout"
    /\ full_url' = BuildUrl(country, job_position, job_location, days_since)
    /\ total_jobs' = Unknown
    /\ pc' = "scrape"
    /\ UNCHANGED <<exc, text, mainVars, harvestVars>>

\* only the no-results header is there: find_element raises NoSuchElementException
SearchNoCount ==
    /\ pc = "search"
    /\ OnFirstPage
    /\ outcome' = "no_count"
    /\ full_url' = BuildUrl(country, job_position, job_location, days_since)
    /\ total_jobs' = Unknown
    /\ pc' = "scrape"
    /\ UNCHANGED <<exc, text, mainVars, harvestVars>>

\* the job-count indicator is there and shows t
SearchCount ==
    /\ pc = "search"
    /\ OnFirstPage
    /\ outcome' = "count_present"
    /\ \E t \in IndicatorTexts :
         /\ text' = t
         /\ IF Split(t) = <<>>
            THEN \* .split()[0] of a blank text: IndexError, not caught here
                 /\ Raise("IndexError")
                 /\ UNCHANGED <<full_url, total_jobs>>
            ELSE /\ total_jobs' = Remove(Remove(Split(t)[1], ","), "+")
                 /\ full_url' = BuildUrl(country, job_position, job_location,
                                         days_since)
                 /\ pc' = "scrape"
                 /\ UNCHANGED exc
    /\ UNCHANGED <<mainVars, harvestVars>>

search_jobs == SearchTimeout \/ SearchNoCount \/ SearchCount

(* ---------------------------- scrape_job_data -------------------------- *)

\* lines 100-104: the empty frame and the counters
ScrapeStart ==
    /\ pc = "scrape"
    /\ df' = <<>>
    /\ job_count' = 0
    /\ retry' = 0
    /\ pc' = "wait"
    /\ UNCHANGED <<outcome, exc, result, mainVars, searchVars, pageVars>>

\* the page the document shows once a pending navigation has committed
Arrived == IF navPending THEN shown + 1 ELSE shown

\* `return df` / `break` followed by `return df`
ReturnDf ==
    /\ result' = df
    /\ pc' = "post"

\* one attempt of the retry loop: a listing container of the page is found
WaitPresent ==
    /\ pc = "wait"
    /\ shown' = Arrived
    /\ \E n \in PageSizes : boxes' = n
    /\ navPending' = FALSE
    /\ outcome' = "content_present"
    /\ pc' = "parse"
    /\ UNCHANGED <<exc, stale, clicks, timeouts, refreshes, mainVars, searchVars,
                   harvestVars>>

\* one attempt of the retry loop: the new document has not replaced the old
\* one after the 2 s pause, and the wait finds the old page's containers
WaitStale ==
    /\ pc = "wait"
    /\ navPending
    /\ boxes > 0
    /\ stale < MaxStale
    /\ stale' = stale + 1
    /\ outcome' = "content_present"
    /\ pc' = "parse"
    /\ UNCHANGED <<exc, shown, boxes, navPending, clicks, timeouts, refreshes, mainVars,
                   searchVars, harvestVars>>

\* GiveUp with the page reloaded before the attempt number is looked at
GiveUpReloaded ==
    /\ ReturnDf
    /\ refreshes' = refreshes + 1
    /\ UNCHANGED <<df, job_count, retry>>

\* lines 114-116: the last attempt failed, `return df` without a reload
GiveUp ==
    /\ ReturnDf
    /\ UNCHANGED <<df, job_count, retry, refreshes>>

\* WaitTimeout with the last TimeoutException re-raised instead of `return df`
WaitTimeoutRaises ==
    /\ pc = "wait"
    /\ shown' = Arrived
    /\ boxes' = 0
    /\ navPending' = FALSE
    /\ outcome' = "content_timeout"
    /\ timeouts' = timeouts + 1
    /\ IF retry = max_retries - 1
       THEN /\ Raise("TimeoutException")
            /\ UNCHANGED <<df, job_count, retry, result, refreshes>>
       ELSE /\ retry' = retry + 1
            /\ refreshes' = refreshes + 1
            /\ pc' = "wait"
            /\ UNCHANGED <<exc, df, job_count, result>>
    /\ UNCHANGED <<stale, clicks, mainVars, searchVars>>

\* one attempt of the retry loop: TimeoutException after 20 s
WaitTimeout ==
    /\ pc = "wait"
    /\ shown' = Arrived
    /\ boxes' = 0
    /\ navPending' = FALSE
    /\ outcome' = "content_timeout"
    /\ timeouts' = timeouts + 1
    /\ IF retry = max_retries - 1
       THEN GiveUp
       ELSE \* driver.refresh() and the next attempt
            /\ retry' = retry + 1
            /\ refreshes' = refreshes + 1
            /\ pc' = "wait"
            /\ UNCHANGED <<df, job_count, result>>
    /\ UNCHANGED <<exc, stale, clicks, mainVars, searchVars>>

\* ExtractPage with the frame rebuilt from the page instead of concatenated
ExtractPageOverwrites ==
    /\ pc = "parse"
    /\ df' = <<[page |-> shown, n |-> boxes]>>
    /\ job_count' = job_count + boxes
    /\ pc' = "check"
    /\ UNCHANGED <<outcome, exc, retry, result, mainVars, searchVars, pageVars>>

\* what the <a> elements of a listing of the page can be
PageListings ==
    [ anchors : SeqUpTo(Anchors, 1),
      company : {<<>>},
      date : {<<>>},
      myJobsStateDate : {<<>>},
      jobAge : {<<>>},
      location : {<<>>},
      divs : {<<>>} ]

\* the rows of the page's listings 1..k appended behind df
WithRows(k) == IF k = 0 THEN df ELSE Append(df, [page |-> shown, n |-> k])

\* lines 120-128: parse the document and append one row per container; when
\* extract_job_data raises on listing i, the rows of the listings before it
\* have been appended and the exception leaves scrape_job_data
ExtractPage ==
    /\ pc = "parse"
    /\ \E box \in PageListings, i \in {1, boxes} :
         IF ExtractRaises(box) = "None"
         THEN /\ df' = WithRows(boxes)
              /\ job_count' = job_count + boxes
              /\ pc' = "check"
              /\ UNCHANGED exc
         ELSE /\ df' = WithRows(i - 1)
              /\ job_count' = job_count + (i - 1)
              /\ Raise(ExtractRaises(box))
    /\ UNCHANGED <<outcome, retry, result, mainVars, searchVars, pageVars>>

\* CheckStop with the counts compared strictly
CheckStopStrict ==
    /\ pc = "check"
    /\ IF job_count > max_jobs
       THEN ReturnDf /\ UNCHANGED exc
       ELSE IF total_jobs = Unknown
       THEN pc' = "nav" /\ UNCHANGED <<exc, result>>
       ELSE IF ~IsInt(total_jobs)
       THEN Raise("ValueError") /\ UNCHANGED result
       ELSE IF job_count > IntOf(total_jobs)
       THEN ReturnDf /\ UNCHANGED exc
       ELSE pc' = "nav" /\ UNCHANGED <<exc, result>>
    /\ UNCHANGED <<outcome, df, job_count, retry, mainVars, searchVars, pageVars>>

\* line 130, evaluated left to right with short circuit
CheckStop ==
    /\ pc = "check"
    /\ IF job_count >= max_jobs
       THEN ReturnDf /\ UNCHANGED exc
       ELSE IF total_jobs = Unknown
       THEN pc' = "nav" /\ UNCHANGED <<exc, result>>
       ELSE IF ~IsInt(total_jobs)
       THEN Raise("ValueError") /\ UNCHANGED result
       ELSE IF job_count >= IntOf(total_jobs)
       THEN ReturnDf /\ UNCHANGED exc
       ELSE pc' = "nav" /\ UNCHANGED <<exc, result>>
    /\ UNCHANGED <<outcome, df, job_count, retry, mainVars, searchVars, pageVars>>

(* -------------------------- navigate_to_next_page ---------------------- *)

\* NextClicked with the attempt counter kept from page to page
NextClickedKeepsRetry ==
    /\ pc = "nav"
    /\ \E committed \in (IF navPending THEN BOOLEAN ELSE {FALSE}) :
         LET here == IF committed THEN shown + 1 ELSE shown IN
         /\ here < MaxPages
         /\ shown' = here
         /\ IF committed THEN \E n \in PageSizes : boxes' = n
                         ELSE boxes' = boxes
    /\ navPending' = TRUE
    /\ clicks' = clicks + 1
    /\ outcome' = "next_clicked"
    /\ retry' = retry
    /\ timeouts' = 0
    /\ pc' = "wait"
    /\ UNCHANGED <<exc, stale, refreshes, df, job_count, result, mainVars,
                   searchVars>>

\* the next control is clickable within 10 s: script click, 2 s pause, True;
\* the while loop starts its next iteration
NextClicked ==
    /\ pc = "nav"
    /\ \E committed \in (IF navPending THEN BOOLEAN ELSE {FALSE}) :
         LET here == IF committed THEN shown + 1 ELSE shown IN
         /\ here < MaxPages
         /\ shown' = here
         /\ IF committed THEN \E n \in PageSizes : boxes' = n
                         ELSE boxes' = boxes
    /\ navPending' = TRUE
    /\ clicks' = clicks + 1
    /\ outcome' = "next_clicked"
    /\ retry' = 0
    /\ timeouts' = 0
    /\ pc' = "wait"
    /\ UNCHANGED <<exc, stale, refreshes, df, job_count, result, mainVars,
                   searchVars>>

\* NextAbsent with the exception of the wait not caught
NextAbsentRaises ==
    /\ pc = "nav"
    /\ outcome' = "next_absent"
    /\ Raise("TimeoutException")
    /\ UNCHANGED <<df, job_count, retry, result, mainVars, searchVars, pageVars>>

\* TimeoutException / NoSuchElementException: False, and the loop breaks
NextAbsent ==
    /\ pc = "nav"
    /\ outcome' = "next_absent"
    /\ ReturnDf
    /\ UNCHANGED <<exc, df, job_count, retry, mainVars, searchVars, pageVars>>

navigate_to_next_page == NextClicked \/ NextAbsent

scrape_job_data ==
    \/ ScrapeStart
    \/ WaitPresent
    \/ WaitStale
    \/ WaitTimeout
    \/ ExtractPage
    \/ CheckStop
    \/ navigate_to_next_page

(* --------------------------------- main -------------------------------- *)

\* PostProcess without the check of df.empty
PostProcessUnchecked ==
    /\ pc = "post"
    /\ pc' = "upload"
    /\ outcome' = "processed"
    /\ decomposed' = TRUE
    /\ UNCHANGED <<exc, driver, browser, days_since, uploaded, loaded,
                   searchVars, harvestVars, pageVars>>

\* lines 233-248: the empty check, location split and classifier
PostProcess ==
    /\ pc = "post"
    /\ pc' = IF result = <<>> THEN "finally" ELSE "upload"
    /\ outcome' = IF result = <<>> THEN "no_results" ELSE "processed"
    /\ decomposed' = (result # <<>>)
    /\ UNCHANGED <<exc, driver, browser, days_since, uploaded, loaded,
                   searchVars, harvestVars, pageVars>>

\* lines 250-251: upload_to_gcs; a storage error propagates
Upload ==
    /\ pc = "upload"
    /\ \/ /\ uploaded' = TRUE
          /\ outcome' = "uploaded"
          /\ pc' = "load"
          /\ UNCHANGED exc
       \/ /\ outcome' = "upload_failed"
          /\ Raise("GoogleAPIError")
          /\ UNCHANGED uploaded
    /\ UNCHANGED <<driver, browser, days_since, decomposed, loaded, searchVars, harvestVars,
                   pageVars>>

\* lines 253-263: load_to_bigquery inside its own try/except, then the analysis
Load ==
    /\ pc = "load"
    /\ \/ loaded' = TRUE /\ outcome' = "loaded"
       \/ loaded' = loaded /\ outcome' = "load_failed"
    /\ pc' = "finally"
    /\ UNCHANGED <<exc, driver, browser, days_since, decomposed, uploaded, searchVars,
                   harvestVars, pageVars>>

\* lines 265-266: logger.exception
Except ==
    /\ pc = "except"
    /\ pc' = "finally"
    /\ UNCHANGED <<outcome, exc, mainVars, searchVars, harvestVars, pageVars>>

\* lines 267-269: quit the driver main holds, if it holds one
Finally ==
    /\ pc = "finally"
    /\ browser' = IF driver # "None" THEN "quit" ELSE browser
    /\ pc' = "done"
    /\ UNCHANGED <<outcome, exc, driver, days_since, decomposed, uploaded, loaded,
                   searchVars, harvestVars, pageVars>>

main ==
    \/ configure_webdriver
    \/ search_jobs
    \/ scrape_job_data
    \/ PostProcess
    \/ Upload
    \/ Load
    \/ Except
    \/ Finally

Next == main /\ UNCHANGED <<callVars, sinkVars>>

Spec == Init /\ [][Next]_vars

\* the run is a sequential program: a step that can be taken is taken
FairSpec == Spec /\ WF_vars(Next)


(* ------------------- split_work_format_and_location -------------------- *)

work_formats == <<<<"H", "y", "b", "r", "i", "d">>,
                  <<"R", "e", "m", "o", "t", "e">>,
                  <<"I", "n", " ", "P", "e", "r", "s", "o", "n">>>>

\* the least element of a non-empty set of integers
Least(S) == CHOOSE x \in S : \A y \in S : x <= y

\* where a match of `.*?in` that begins at position k of s can end: the
\* positions of an "in", in any case, with no newline between k and it
InAfter(s, k) ==
    { j \in k..(Len(s) - 1) :
        /\ LowerStr(SubSeq(s, j, j + 1)) = <<"i", "n">>
        /\ \A x \in k..(j - 1) : s[x] # "\n" }

\* re.sub(f'{kw}.*?in', '', s, flags=re.IGNORECASE) from position i on:
\* leftmost matches, each as short as it can be, removed
RECURSIVE SubFrom(_, _, _)
SubFrom(s, kw, i) ==
    IF i > Len(s) THEN <<>>
    ELSE IF /\ MatchesAt(LowerStr(s), LowerStr(kw), i)
            /\ InAfter(s, i + Len(kw)) # {}
         THEN SubFrom(s, kw, Least(InAfter(s, i + Len(kw))) + 2)
         ELSE <<s[i]>> \o SubFrom(s, kw, i + 1)

\* re.sub(r'\s+', ' ', s)
RECURSIVE CollapseBlanks(_)
CollapseBlanks(s) ==
    IF s = <<>> THEN <<>>
    ELSE IF IsBlank(Head(s))
         THEN IF Len(s) > 1 /\ IsBlank(s[2])
              THEN CollapseBlanks(Tail(s))
              ELSE <<" ">> \o CollapseBlanks(Tail(s))
         ELSE <<Head(s)>> \o CollapseBlanks(Tail(s))

\* the keywords of work_formats, by index, that occur in s in any case
Occurring(s) ==
    { i \in 1..Len(work_formats) :
        Contains(LowerStr(s), LowerStr(work_formats[i])) }

\* split_work_format_and_location without the break: every keyword that
\* occurs is processed and the last one is kept
RECURSIVE SplitAll(_, _)
SplitAll(location_string, i) ==
    IF i > Len(work_formats) THEN <<Unknown, location_string>>
    ELSE IF Contains(LowerStr(location_string), LowerStr(work_formats[i]))
         THEN LET rest == SplitAll(Strip(SubFrom(location_string,
                                                  work_formats[i], 1)), i + 1)
              IN  <<IF rest[1] = Unknown THEN work_formats[i] ELSE rest[1],
                    rest[2]>>
         ELSE SplitAll(location_string, i + 1)

split_work_format_and_location_nobreak(location_string) ==
    LET all == SplitAll(location_string, 1) IN
    <<all[1], Strip(CollapseBlanks(all[2]))>>

\* lines 83-94: <<work_format, location>>
split_work_format_and_location(location_string) ==
    LET hit == Occurring(location_string)
        work_format == IF hit = {} THEN Unknown ELSE work_formats[Least(hit)]
        cut == IF hit = {} THEN location_string
               ELSE Strip(SubFrom(location_string, work_formats[Least(hit)], 1))
    IN  <<work_format, Strip(CollapseBlanks(cut))>>

\* the pieces raw locations are put together from
Pieces ==
    { <<"H", "y", "b", "r", "i", "d">>, <<"R", "E", "M", "O", "T", "E">>, <<"i", "n", " ", "p", "e", "r", "s", "o", "n">>, <<" ", "i", "n", " ">>,
      <<" ", " ">>, <<"\t">>, <<"A", "u", "s", "t", "i", "n">>, <<" ", "\n">> }

RECURSIVE Concat(_)
Concat(ps) == IF ps = <<>> THEN <<>> ELSE Head(ps) \o Concat(Tail(ps))

\* the raw locations the split is applied to
Locations == { Concat(ps) : ps \in SeqUpTo(Pieces, MaxPieces) }

SplitInit ==
    /\ MainEntered
    /\ SinkEmpty
    /\ days_since = 0
    /\ call = "split_work_format_and_location"
    /\ arg \in Locations
    /\ ret = <<>>
    /\ status = "ready"

ApplySplit ==
    /\ call = "split_work_format_and_location"
    /\ status = "ready"
    /\ status' = "returned"
    /\ ret' = split_work_format_and_location(arg)
    /\ UNCHANGED <<call, arg, pipelineVars, sinkVars>>

SplitNext == ApplySplit

SplitSpec == SplitInit /\ [][SplitNext]_vars

(* ---------------------------- identify_it_jobs ------------------------- *)

\* the columns of the frame main passes to identify_it_jobs
MainColumns ==
    {"Link", "Job Title", "Company", "Date Posted", "Location", "Salary",
     "Job Type", "Work Format", "Processed Location"}

\* A frame is [rows |-> the set of its row labels, columns |-> the set of
\* its column names].  env says what the collaborators find: whether the
\* NLTK stopwords and punkt data are installed and whether any title leaves
\* a word for the vocabulary.

\* the step of identify_it_jobs that raises, or "None"
ClassifierFails(frame, env) ==
    IF ~env.stopwords THEN "stopwords"           \* LookupError, line 190
    ELSE IF ~env.punkt THEN "word_tokenize"      \* LookupError, line 192
    ELSE IF ~env.vocabulary THEN "fit_transform" \* ValueError, line 197
    ELSE IF Cardinality(frame.rows) < n_clusters
         THEN "fit_predict"                      \* ValueError, line 200
    ELSE "None"

\* the columns the frame has when the step `at` raises: the assignments of
\* lines 191 and 200 are made on the caller's frame itself
ColumnsWhen(frame, at) ==
    CASE at \in {"stopwords", "word_tokenize"} -> frame.columns
      [] at \in {"fit_transform", "fit_predict"} ->
            frame.columns \cup {"processed_title"}
      [] OTHER -> frame.columns \cup {"processed_title", "cluster"}

\* lines 189-208; kept are the rows of the clusters with an IT keyword
identify_it_jobs(frame, env, kept) ==
    IF ClassifierFails(frame, env) # "None"
    THEN [rows |-> frame.rows,
          columns |-> ColumnsWhen(frame, ClassifierFails(frame, env)),
          error |-> ClassifierFails(frame, env)]
    ELSE [rows |-> kept, columns |-> ColumnsWhen(frame, "None"),
          error |-> "None"]

ClassifyInit ==
    /\ MainEntered
    /\ SinkEmpty
    /\ days_since = 0
    /\ call = "identify_it_jobs"
    /\ \E n \in 1..MaxRows :
         arg \in [ frame : {[rows |-> 1..n, columns |-> MainColumns]},
                   env : [stopwords : BOOLEAN, punkt : BOOLEAN,
                          vocabulary : BOOLEAN] ]
    /\ ret = <<>>
    /\ status = "ready"

ApplyClassify ==
    /\ call = "identify_it_jobs"
    /\ status = "ready"
    /\ status' = "returned"
    /\ \E kept \in SUBSET arg.frame.rows :
         ret' = identify_it_jobs(arg.frame, arg.env, kept)
    /\ UNCHANGED <<call, arg, pipelineVars, sinkVars>>

ClassifyNext == ApplyClassify

ClassifySpec == ClassifyInit /\ [][ClassifyNext]_vars

(* ------------------------- the sink across runs ------------------------ *)

\* target_date = date(2024, 9, 1) of main, as <<year, month, day>>
target_date == <<2024, 9, 1>>

\* %m and %d of strftime: two digits
TwoDigits(n) == IF n < 10 THEN <<"0">> \o StrOf(n) ELSE StrOf(n)

\* f'indeed_it_jobs_{target_date.strftime("%Y%m%d")}.csv'
blob_name(d) ==
    <<"indeed_it_jobs_">> \o StrOf(d[1]) \o TwoDigits(d[2]) \o TwoDigits(d[3])
                        \o <<".csv">>

\* bucket.blob(blob_name).upload_from_string(...): the object under the name
\* holds the new content, whatever it held before
upload_to_gcs(objects, name, content) ==
    {o \in objects : o.name # name} \cup {[name |-> name, content |-> content]}

\* the load job of load_to_bigquery with WRITE_APPEND: the rows of the object
\* at the uri are added behind the rows of the table
load_to_bigquery(rows, objects, name) ==
    rows \o <<(CHOOSE o \in objects : o.name = name).content>>

SinkInit ==
    /\ MainEntered
    /\ days_since = 0
    /\ SinkEmpty
    /\ call = "main"
    /\ arg = <<>>
    /\ ret = <<>>
    /\ status = "idle"

\* a run of main up to line 248: it ends without a frame for the sink (no
\* results, or an exception), or it has df_it_jobs, here arg
RunStarts ==
    /\ call = "main"
    /\ status = "idle"
    /\ run < MaxRuns
    /\ run' = run + 1
    /\ \/ arg' = <<>> /\ status' = "idle"
       \/ /\ \E k \in 0..MaxBatch : arg' = [run |-> run + 1, rows |-> k]
          /\ status' = "upload"
    /\ UNCHANGED <<call, ret, bucket, table, pipelineVars>>

\* lines 250-251 of the run: the upload, or its exception ending the run
UploadBatch ==
    /\ call = "main"
    /\ status = "upload"
    /\ \/ /\ bucket' = upload_to_gcs(bucket, blob_name(target_date), arg)
          /\ status' = "load"
       \/ /\ bucket' = bucket
          /\ status' = "idle"
    /\ UNCHANGED <<call, arg, ret, table, run, pipelineVars>>

\* lines 255-259 of the run: the load job, or its exception logged
LoadBatch ==
    /\ call = "main"
    /\ status = "load"
    /\ \/ table' = load_to_bigquery(table, bucket, blob_name(target_date))
       \/ table' = table
    /\ status' = "idle"
    /\ UNCHANGED <<call, arg, ret, bucket, run, pipelineVars>>

SinkNext == RunStarts \/ UploadBatch \/ LoadBatch

SinkSpec == SinkInit /\ [][SinkNext]_vars

(* ------------------- the extractors applied on their own --------------- *)

\* the date candidates alone: a node with nothing else in it
DateNodes ==
    { b \in ListingNodes :
        /\ b.anchors = <<>>
        /\ b.company = <<>>
        /\ b.location = <<>>
        /\ b.divs = <<>> }

ExtractInit ==
    /\ MainEntered
    /\ SinkEmpty
    /\ days_since = 0
    /\ \/ call = "extract_job_data" /\ arg \in ListingNodes
       \/ call = "extract_date_posted" /\ arg \in DateNodes
    /\ ret = <<>>
    /\ status = "ready"

\* extract_job_data(box, country)
ApplyExtractJobData ==
    /\ call = "extract_job_data"
    /\ status = "ready"
    /\ IF ExtractRaises(arg) # "None"
       THEN status' = ExtractRaises(arg) /\ ret' = ret
       ELSE status' = "returned" /\ ret' = extract_job_data(arg, country)
    /\ UNCHANGED <<call, arg, pipelineVars, sinkVars>>

\* extract_date_posted(box)
ApplyExtractDatePosted ==
    /\ call = "extract_date_posted"
    /\ status = "ready"
    /\ status' = "returned"
    /\ ret' = extract_date_posted(arg)
    /\ UNCHANGED <<call, arg, pipelineVars, sinkVars>>

ExtractNext == ApplyExtractJobData \/ ApplyExtractDatePosted

ExtractSpec == ExtractInit /\ [][ExtractNext]_vars

(* ------------------------------ properties ----------------------------- *)

\* positions inside the while loop of scrape_job_data
InLoop == pc \in {"wait", "parse", "check", "nav"}

Max(a, b) == IF a >= b THEN a ELSE b

\* expectedCount as a number; an unknown one contributes nothing
ExpectedOrZero == IF IsInt(total_jobs) THEN IntOf(total_jobs) ELSE 0

\* C1: the result scrape_job_data returns never holds more than
\* max(expectedCount, 15000) records.
C1_ResultWithinCeiling ==
    NRows(result) <= Max(ExpectedOrZero, max_jobs)

\* C2: once scrape_job_data has been entered, it reaches a return.
C2_HarvestReturns ==
    (pc = "scrape") ~> (pc = "post")

\* the condition under which the loop is to end after a page
StopCondition ==
    \/ job_count >= max_jobs
    \/ /\ total_jobs # Unknown
       /\ IsInt(total_jobs)
       /\ job_count >= IntOf(total_jobs)

\* C4: after the listings of a page are appended the loop ends exactly when
\* the stop condition holds, and in every other case, and only then, the
\* pagination navigator is invoked.
C4_StopExactlyWhen ==
    [][pc = "check" =>
         \/ StopCondition /\ pc' = "post" /\ clicks' = clicks
         \/ ~StopCondition /\ pc' = "nav"]_vars

\* C6: no result page has its listings extracted and appended twice.
C6_EachPageOnce ==
    \A i, j \in 1..Len(df) : i # j => df[i].page # df[j].page

\* the leading token of the indicator text with ',' and '+' stripped
LeadingToken(t) == Remove(Remove(Split(t)[1], ","), "+")

\* the indicator text parses: it has a leading token and that token is a number
Parses(t) == Split(t) # <<>> /\ IsInt(LeadingToken(t))

\* C8: search_jobs returns the stripped leading number of the indicator text,
\* and the unknown sentinel whenever the lookup or the parsing fails, so the
\* stop check of the harvest loop never fails on the value.
C8_CountOrUnknown ==
    /\ exc \notin {"IndexError", "ValueError"}
    /\ (pc = "scrape" /\ outcome = "count_present") =>
           total_jobs = IF Parses(text) THEN LeadingToken(text) ELSE Unknown
    /\ (pc = "scrape" /\ outcome \in {"search_timeout", "no_count"}) =>
           total_jobs = Unknown

\* C10: when the run has ended, no browser process it started is running.
C10_BrowserReleased ==
    pc = "done" => browser # "running"

\* C3: when the content wait of a page times out on all 3 attempts,
\* scrape_job_data returns exactly the accumulated records and nothing is
\* raised.
C3_ExhaustedWaitReturnsAccumulated ==
    [][(pc = "wait" /\ outcome' = "content_timeout" /\ timeouts' = 3) =>
          (pc' = "post" /\ result' = df /\ exc' = "None")]_vars

\* a later page timed out three times and the earlier pages' records came back
C3_Witness ==
    /\ pc = "post"
    /\ outcome = "content_timeout"
    /\ timeouts = 3
    /\ Len(result) >= 1
    /\ result = df

\* C5: when the next control is not found the navigator gives false without
\* raising and the loop returns every accumulated record; when it is found it
\* is activated once and the loop goes back to waiting for content.
C5_NavigatorOutcomes ==
    [][pc = "nav" =>
         \/ /\ outcome' = "next_absent"
            /\ pc' = "post"
            /\ result' = df
            /\ clicks' = clicks
            /\ exc' = "None"
         \/ /\ outcome' = "next_clicked"
            /\ pc' = "wait"
            /\ clicks' = clicks + 1
            /\ df' = df
            /\ exc' = "None"]_vars

\* the control was found at least once and then no longer
C5_Witness ==
    /\ pc = "post"
    /\ outcome = "next_absent"
    /\ clicks >= 1
    /\ Len(result) >= 2

\* C7: the accumulator only grows by appending, and at the end of every page
\* the running count is the number of accumulated records.
C7_AccumulatorMonotonic ==
    /\ [][IsPrefix(df, df')]_vars
    /\ [](pc = "check" => job_count = NRows(df))

\* a second page has been appended behind the first
C7_Witness ==
    /\ pc = "check"
    /\ Len(df) >= 2
    /\ job_count = NRows(df)

\* the url main's arguments give
ExpectedUrl ==
    <<"https://www.indeed.com", "/jobs?q=", "I", "T", "&l=", "all", "&fromage=">>
        \o StrOf(days_since)

\* C9: when neither indicator appears within the search wait, search_jobs
\* returns the url with the unknown count without raising, and main goes on to
\* the harvest loop on the same browser session.
C9_SearchTimeoutNotFatal ==
    /\ [][(pc = "search" /\ outcome' = "search_timeout") =>
            /\ pc' = "scrape"
            /\ full_url' = ExpectedUrl
            /\ total_jobs' = Unknown
            /\ exc' = "None"
            /\ driver' = driver
            /\ browser' = "running"]_vars
    /\ [][pc = "scrape" =>
            (pc' = "wait" /\ driver' = "chrome" /\ browser' = "running")]_vars

\* the harvest loop is waiting for content after a timed-out search
C9_Witness ==
    /\ pc = "wait"
    /\ outcome = "search_timeout"
    /\ total_jobs = Unknown
    /\ browser = "running"

\* the harvest loop is always left, by a return or by an exception
HarvestLeavesLoop ==
    InLoop ~> ~InLoop

\* the seven columns of a record
Columns ==
    {"Link", "Job Title", "Company", "Date Posted", "Location", "Salary",
     "Job Type"}

\* the text of the element e of a listing, and N/A when it is absent
StrippedOrNA(e) == IF e = <<>> THEN NA ELSE Strip(e[1])

TitleAnchors(box) == SelectSeq(box.anchors, LAMBDA a : a.title)

SalaryDivs(box) == SelectSeq(box.divs, LAMBDA d : d.salary)

\* C11: the record extract_job_data returns has all seven keys, and every
\* optional field whose sub-element is absent holds its sentinel, whatever
\* the other sub-elements are: a field whose sub-element is there keeps its
\* text when others fall back.
C11_SevenKeysAndSentinels ==
    (call = "extract_job_data" /\ status = "returned") =>
        /\ DOMAIN ret = Columns
        /\ ret["Job Title"] =
             IF TitleAnchors(arg) = <<>> THEN NA
             ELSE Strip(TitleAnchors(arg)[1].text)
        /\ ret["Company"] = StrippedOrNA(arg.company)
        /\ ret["Location"] = StrippedOrNA(arg.location)
        /\ ret["Salary"] =
             IF SalaryDivs(arg) = <<>> THEN NA
             ELSE Strip(SalaryDivs(arg)[1].text)
        /\ (arg.date = <<>> /\ arg.myJobsStateDate = <<>> /\ arg.jobAge = <<>>)
             => ret["Date Posted"] = NA
        /\ arg.divs = <<>> => ret["Job Type"] = Unknown

\* a listing with only its link anchor gave a record of sentinels; another
\* kept its company although it has no title
C11_Witness ==
    /\ call = "extract_job_data"
    /\ status = "returned"
    /\ TitleAnchors(arg) = <<>>
    /\ arg.location = <<>>
    /\ arg.divs = <<>>
    /\ arg.date = <<>> /\ arg.myJobsStateDate = <<>> /\ arg.jobAge = <<>>
    /\ arg.company # <<>>
    /\ ret["Job Title"] = NA
    /\ ret["Job Type"] = Unknown
    /\ ret["Company"] # NA

\* C12: extract_job_data returns a record for every listing node and never
\* raises.
C12_ExtractNeverRaises ==
    call = "extract_job_data" => status \in {"ready", "returned"}

\* the first date candidate, in order, that is there with a non-empty text
FirstNonEmptyDate(box) ==
    LET candidates == <<box.date, box.myJobsStateDate, box.jobAge>>
        found == SelectSeq(candidates,
                           LAMBDA e : e # <<>> /\ Strip(e[1]) # <<>>)
    IN  IF found = <<>> THEN NA ELSE Strip(found[1][1])

\* C17: extract_date_posted returns the text of the first candidate, in the
\* order date, myJobsStateDate, job-age, whose text is not empty, and N/A
\* only when there is none.
C17_FirstNonEmptyDate ==
    (call = "extract_date_posted" /\ status = "returned") =>
        ret = FirstNonEmptyDate(arg)

\* the words of s: its maximal runs of non-blank characters, in order
RECURSIVE WordsFrom(_, _, _)
WordsFrom(s, i, cur) ==
    IF i > Len(s)
    THEN IF cur = <<>> THEN <<>> ELSE <<cur>>
    ELSE IF IsBlank(s[i])
         THEN (IF cur = <<>> THEN <<>> ELSE <<cur>>) \o WordsFrom(s, i + 1, <<>>)
         ELSE WordsFrom(s, i + 1, Append(cur, s[i]))

\* words put together with single spaces
RECURSIVE Spaced(_)
Spaced(ws) ==
    IF ws = <<>> THEN <<>>
    ELSE IF Len(ws) = 1 THEN ws[1]
    ELSE ws[1] \o <<" ">> \o Spaced(Tail(ws))

Occurs(kw, s) == \E i \in 1..Len(s) : MatchesAt(LowerStr(s), LowerStr(kw), i)

Hybrid == work_formats[1]

Remote == work_formats[2]

InPerson == work_formats[3]

\* C13: the work format is the first of Hybrid, Remote, In Person that
\* occurs in the raw location in any case, and Unknown exactly when none
\* does; when none does the processed location is the raw one with blank
\* runs collapsed and trimmed; with several keywords only the first in that
\* order is processed.
C13_FirstKeywordWins ==
    (call = "split_work_format_and_location" /\ status = "returned") =>
        /\ ret[1] = IF Occurs(Hybrid, arg) THEN Hybrid
                    ELSE IF Occurs(Remote, arg) THEN Remote
                    ELSE IF Occurs(InPerson, arg) THEN InPerson
                    ELSE Unknown
        /\ (ret[1] = Unknown) <=>
             ~(Occurs(Hybrid, arg) \/ Occurs(Remote, arg) \/ Occurs(InPerson, arg))
        /\ ret[1] = Unknown => ret[2] = Spaced(WordsFrom(arg, 1, <<>>))
        /\ ret[1] # Unknown =>
             ret[2] = Spaced(WordsFrom(SubFrom(arg, ret[1], 1), 1, <<>>))

\* Remote comes first in the text, Hybrid is the format, and Remote stays
C13_Witness ==
    /\ call = "split_work_format_and_location"
    /\ status = "returned"
    /\ Occurs(Remote, arg)
    /\ Occurs(InPerson, arg)
    /\ Occurs(Hybrid, arg)
    /\ ret[1] = Hybrid
    /\ Occurs(Remote, ret[2])

\* C14: when identify_it_jobs fails internally, at whatever step, it returns
\* the frame it was given: the same rows and the same columns.
C14_FailOpenUnchanged ==
    (call = "identify_it_jobs" /\ status = "returned" /\ ret.error # "None") =>
        /\ ret.rows = arg.frame.rows
        /\ ret.columns = arg.frame.columns

\* C15: writes to the sink are append-only across runs: whatever a run stored
\* in the bucket and in the table is still there after every later step; a
\* later run adds a batch and never overwrites or replaces an earlier one.
C15_AppendOnly ==
    [][ /\ \A o \in bucket : o \in bucket'
        /\ IsPrefix(table, table') ]_vars

\* C16: on one page the content wait is attempted at most 3 times; the page is
\* reloaded exactly after a failed attempt that another attempt follows, which
\* is the first or the second failure of the page, so never after a successful
\* wait and never after the third failure; the page is parsed only after a
\* wait succeeded.
C16_ReloadBetweenAttempts ==
    /\ timeouts = 0
    /\ [][ /\ timeouts' <= max_retries
           /\ pc' = "wait" => timeouts' < max_retries
           /\ refreshes' \in {refreshes, refreshes + 1}
           /\ (refreshes' = refreshes + 1) <=>
                 (pc = "wait" /\ outcome' = "content_timeout" /\ pc' = "wait")
           /\ (refreshes' = refreshes + 1) => timeouts' <= max_retries - 1
           /\ (pc = "wait" /\ outcome' = "content_timeout"
                 /\ timeouts' = max_retries) => pc' # "wait"
           /\ (pc # "parse" /\ pc' = "parse") =>
                 (pc = "wait" /\ outcome' = "content_present") ]_vars

\* a page is parsed after two failed waits, each followed by a reload
C16_Witness ==
    /\ pc = "parse"
    /\ outcome = "content_present"
    /\ timeouts = 2
    /\ refreshes >= 2

\* C18: the attempts are counted per page: each time the loop starts waiting
\* for a page the counter is at zero, the loop gives up only on the third
\* failed wait of the page it is on, and a run that has waited for P pages has
\* made at most 2 * P reloads.
C18_BudgetPerPage ==
    /\ refreshes = 0
    /\ [][ /\ refreshes' <= (max_retries - 1) * (clicks' + 1)
           /\ (pc # "wait" /\ pc' = "wait") => (retry' = 0 /\ timeouts' = 0)
           /\ (pc = "wait" /\ outcome' = "content_timeout" /\ pc' # "wait") =>
                 timeouts' = max_retries ]_vars

\* three pages were waited for with two reloads each, and the loop goes on
C18_Witness ==
    /\ pc = "parse"
    /\ clicks = 2
    /\ refreshes = 2 * (clicks + 1)

\* the count at which the loop is to stop: the ceiling, or the expected count
\* when it is known and lower
Threshold ==
    IF IsInt(total_jobs) /\ IntOf(total_jobs) < max_jobs
    THEN IntOf(total_jobs) ELSE max_jobs

\* the rows of the page processed last, and the rows appended before it
LastPageRows == df[Len(df)].n

RowsBefore == NRows(df) - LastPageRows

\* the loop ends on the count condition
StopsOnCount == pc = "check" /\ pc' = "post"

\* C19 as stated: the stop condition is checked with all listings of the page
\* appended; when the loop stops on the count condition the records appended
\* before the last page were fewer than the threshold and the result exceeds
\* the threshold by less than the listings of the last page.
C19_OvershootBelowLastPage ==
    [][ /\ pc' = "check" =>
              (df' # <<>> /\ LastPageRows' = boxes' /\ job_count' = NRows(df'))
        /\ StopsOnCount =>
              /\ result' = df
              /\ RowsBefore < Threshold
              /\ NRows(result') - Threshold < LastPageRows ]_vars

\* C19, amended: the same with a threshold of at least 1; with an expected
\* count of 0 the loop stops after the first page, whose listings are all
\* appended, and the result exceeds the threshold by exactly that page.
C19_OvershootWithinLastPage ==
    [][ /\ pc' = "check" =>
              (df' # <<>> /\ LastPageRows' = boxes' /\ job_count' = NRows(df'))
        /\ (StopsOnCount /\ Threshold >= 1) =>
              /\ result' = df
              /\ RowsBefore < Threshold
              /\ NRows(result') - Threshold < LastPageRows
        /\ (StopsOnCount /\ Threshold = 0) =>
              /\ result' = df
              /\ RowsBefore = 0
              /\ NRows(result') = LastPageRows ]_vars

\* the loop stopped on the count after its second page, above the threshold
C19_Witness ==
    /\ pc = "post"
    /\ outcome = "content_present"
    /\ Len(result) >= 2
    /\ Threshold >= 1
    /\ NRows(result) > Threshold

\* exceptions raised inside search_jobs or scrape_job_data
SearchOrHarvestRaised ==
    exc \in {"IndexError", "ValueError", "AttributeError", "TypeError"}

\* C20: upload_to_gcs and then load_to_bigquery write only in a run whose
\* harvest returned a non-empty record set, and only after the location split
\* ran over it; a run with an empty set, or one where search or harvest
\* raised, writes nothing, and the empty outcome (the warning, no exception)
\* differs from the crashed one (the logged exception).
C20_SinkOnlyAfterHarvest ==
    /\ (uploaded \/ pc \in {"upload", "load"}) =>
          (result # <<>> /\ result = df /\ decomposed)
    /\ loaded => uploaded
    /\ (pc = "load") <=> (uploaded /\ pc \notin {"finally", "done"})
    /\ (pc \in {"finally", "done"} /\ exc = "None" /\ result = <<>>) =>
          (outcome = "no_results" /\ ~uploaded /\ ~loaded)
    /\ outcome = "no_results" =>
          (exc = "None" /\ result = <<>> /\ ~decomposed /\ ~uploaded /\ ~loaded)
    /\ SearchOrHarvestRaised => (~decomposed /\ ~uploaded /\ ~loaded)
    /\ exc # "None" => (outcome # "no_results" /\ ~uploaded /\ ~loaded)

\* a run ended with both writes made
C20_Witness ==
    /\ pc = "done"
    /\ result # <<>>
    /\ decomposed
    /\ uploaded
    /\ loaded

====
